---- MODULE Spec2Model ----
(***************************************************************************)
(* PathPilot backend: the resilience layer around the external generative  *)
(* model.  The module models                                               *)
(*   - the retry decorator of api/retry_wrapper.py (tenacity's Retrying    *)
(*     loop configured by retry_with_backoff / retry_gemini_api),          *)
(*   - the tolerant parser GeminiClient._parse_analysis_response,          *)
(*   - the content-hash cache ResumeService._get_cached_resume,            *)
(*   - the orchestration ResumeService.upload_and_analyze_resume,          *)
(*   - the services that call the model without the decorator: cover       *)
(*     letters, interview questions and answers, job recommendations and   *)
(*     job-match analysis.                                                 *)
(* Six specifications share the variables:                                 *)
(*   SpecParse  the parser applied to bounded response texts,              *)
(*   SpecRetry  a decorated flaky function under bounded policies,         *)
(*   SpecCache  the cache lookup over bounded stored tables,               *)
(*   Spec       sequences of uploads against the external model,           *)
(*   SpecServices  uploads and the other services, one request at a time,  *)
(*   SpecLoop   uploads that overlap on the event loop of the server.       *)
(***************************************************************************)
EXTENDS Integers, Sequences, FiniteSets, TLC

VARIABLES
    raw,              \* SpecParse: the response text handed to the parser
    parsed,           \* SpecParse: what the parser did with it
    policy,           \* the retry policy of the decorated call
    fail_count,       \* SpecRetry: flaky_function's fail_count
    raised,           \* the exception each failed invocation raised, in order
    attempt_number,   \* tenacity's retry_state.attempt_number
    invocations,      \* how often the decorated function body has run
    waits,            \* the sleeps performed so far, in seconds
    log,              \* the events emitted by the wrapper and by tenacity
    result,           \* what the decorated call gave its caller
    rpc,              \* position of the retry loop
    resumes,          \* the resumes table (row i has id i)
    first_row,        \* per (user, hash): the analyzed row the database puts first
    query,            \* SpecCache: the (user, hash) last looked up
    cached,           \* SpecCache: what the lookup returned
    pc,               \* Spec: position of the upload request
    cur,              \* Spec: the upload request being served
    prev,             \* Spec: the upload request finished before this one
    loop,             \* SpecLoop: the uploads suspended in `await file.read()'
    fetched,          \* what get_resume_by_id last returned, and to whom
    cover_letters,    \* the cover_letters table (row i has id i)
    interviews,       \* the interviews table (row i has id i)
    call              \* SpecServices: the service request being served or last served

parseVars == <<raw, parsed>>
retryVars == <<policy, fail_count, raised, attempt_number, invocations,
               waits, log, result, rpc>>
cacheVars == <<query, cached>>
uploadVars == <<pc, cur, prev, loop>>
vars == <<raw, parsed, policy, fail_count, raised, attempt_number,
          invocations, waits, log, result, rpc, resumes, first_row, query,
          cached, pc, cur, prev, loop, fetched, cover_letters, interviews,
          call>>
dbVars == <<resumes, first_row>>
serviceVars == <<fetched, cover_letters, interviews, call>>

(***************************************************************************)
(* Bounds of the model.                                                    *)
(***************************************************************************)
MaxTextLen == 3
MaxAttempts == 4
MaxFail == 4
MaxInitialWait == 2
MaxWait == 5
MaxMultiplier == 3
MaxRows == 2
MaxUploads == 3
MaxArtifacts == 1
MaxWaiting == 2
MaxVersion == 3

(***************************************************************************)
(* JSON values.  Every value is a record [ty, v]; an object's v is a       *)
(* function from its keys to JSON values, an array's v a sequence.  None   *)
(* (a NULL column, JSON null) is J("null", <<>>).  The lexical tokens of a *)
(* response text are records of the same shape.                            *)
(***************************************************************************)
J(ty, v) == [ty |-> ty, v |-> v]
None == J("null", <<>>)
Dict(d) == J("obj", d)
EmptyDict == Dict(<<>>)
List(s) == J("arr", s)
Num(n) == J("num", n)
Str(s) == J("str", s)
IsDict(x) == x.ty = "obj"
Keys(x) == DOMAIN x.v
\* Python's truth value of a stored JSON value
Truthy(x) ==
    CASE x.ty = "null" -> FALSE
      [] x.ty = "obj" -> Keys(x) # {}
      [] x.ty = "arr" -> Len(x.v) > 0
      [] x.ty = "num" -> x.v # 0
      [] x.ty = "str" -> x.v # ""
      [] OTHER -> TRUE

\* what a call gave: a returned value or a raised exception; `cause' is the
\* exception a RetryError wraps (its last_attempt)
Return(value) == [kind |-> "return", value |-> value, exc |-> "", cause |-> ""]
Raise(exc, cause) == [kind |-> "raise", value |-> None, exc |-> exc, cause |-> cause]
NotYet == [kind |-> "none", value |-> None, exc |-> "", cause |-> ""]

(***************************************************************************)
(* GeminiClient._parse_analysis_response.  A response text is a sequence   *)
(* of tokens: "ws" (white space), "fencejson" (```json), "fence" (```),    *)
(* "junk" (text that is no JSON), or one JSON value.  The number token is  *)
(* a literal such as 1.5, the array and string tokens hold none of the     *)
(* field names, so two adjacent values never read as one value.            *)
(***************************************************************************)
Tok(ty) == J(ty, <<>>)
ValueTypes == {"obj", "arr", "str", "num", "null"}

RequiredListFields ==
    {"strengths", "weaknesses", "recommendations", "suitable_roles", "skills"}
RequiredFields == RequiredListFields \cup {"experience_years"}

RECURSIVE LStrip(_)
LStrip(s) == IF s # <<>> /\ Head(s).ty = "ws" THEN LStrip(Tail(s)) ELSE s
RECURSIVE RStrip(_)
RStrip(s) ==
    IF s # <<>> /\ s[Len(s)].ty = "ws" THEN RStrip(SubSeq(s, 1, Len(s) - 1)) ELSE s
\* str.strip()
Strip(s) == RStrip(LStrip(s))
StartsWith(s, ty) == s # <<>> /\ Head(s).ty = ty
EndsWith(s, ty) == s # <<>> /\ s[Len(s)].ty = ty

\* json.loads: white space around exactly one value, else JSONDecodeError
JsonLoads(s) ==
    LET t == Strip(s)
    IN  IF Len(t) = 1 /\ t[1].ty \in ValueTypes
        THEN Return(t[1])
        ELSE Raise("JSONDecodeError", "")

\* the default the parser substitutes for a missing field
FieldDefault(k) == IF k = "experience_years" THEN Num(0) ELSE List(<<>>)

\* Backfill with the check of experience_years (gemini_client.py:284-285) left out
BackfillListFieldsOnly(analysis) ==
    IF ~IsDict(analysis)
    THEN Raise("TypeError", "")
    ELSE Return(Dict([k \in Keys(analysis) \cup RequiredListFields |->
                        IF k \in Keys(analysis) THEN analysis.v[k]
                        ELSE List(<<>>)]))

\* gemini_client.py:272-287 on the decoded value.  `in' and item assignment
\* on a value that is no object raise TypeError.
Backfill(analysis) ==
    IF ~IsDict(analysis)
    THEN Raise("TypeError", "")
    ELSE Return(Dict([k \in Keys(analysis) \cup RequiredFields |->
                        IF k \in Keys(analysis) THEN analysis.v[k]
                        ELSE FieldDefault(k)]))

\* gemini_client.py:297-305
FallbackAnalysis ==
    Dict([k \in RequiredFields \cup {"parse_error"} |->
            CASE k = "strengths" -> List(<<"Unable to parse analysis">>)
              [] k = "recommendations" ->
                     List(<<"Please try uploading your resume again">>)
              [] k = "experience_years" -> Num(0)
              [] k = "parse_error" -> Str("JSONDecodeError")
              [] OTHER -> List(<<>>)])

ParseAnalysisResponse(response_text) ==
    LET t1 == Strip(response_text)
        t2 == IF StartsWith(t1, "fencejson") THEN Tail(t1) ELSE t1
        t3 == IF StartsWith(t2, "fence") THEN Tail(t2) ELSE t2
        t4 == IF EndsWith(t3, "fence") THEN SubSeq(t3, 1, Len(t3) - 1) ELSE t3
        decoded == JsonLoads(Strip(t4))
    IN  IF decoded.kind = "raise"
        THEN Return(FallbackAnalysis)     \* except json.JSONDecodeError
        ELSE Backfill(decoded.value)

(***************************************************************************)
(* The response texts of the model.                                        *)
(***************************************************************************)
\* a value the external model may put under a key
ModelValue(k) ==
    CASE k = "experience_years" -> Num(5)
      [] k = "ats_score" -> Num(80)
      [] OTHER -> List(<<"Python">>)
ModelKeys == RequiredFields \cup {"ats_score"}
ModelObject(ks) == Dict([k \in ks |-> ModelValue(k)])
JsonValues ==
    {ModelObject(ks) : ks \in SUBSET ModelKeys}
        \cup {List(<<"a">>), Str("text"), Num(1), None}
\* the token shapes of a text: "val" stands for the text's JSON value
ShapeTokens == {"ws", "fencejson", "fence", "junk", "val"}
Shapes == UNION {[1..n -> ShapeTokens] : n \in 0..MaxTextLen}
Fill(shape, value) ==
    [i \in 1..Len(shape) |-> IF shape[i] = "val" THEN value ELSE Tok(shape[i])]
Texts == {Fill(shape, value) : shape \in Shapes, value \in JsonValues}

(***************************************************************************)
(* retry_with_backoff: tenacity's Retrying loop around sync_wrapper.       *)
(* A policy is the decorator's arguments; waits are whole seconds.         *)
(***************************************************************************)
DefaultMultiplier == 2
GeminiMaxAttempts == 3
GeminiInitialWait == 1
GeminiMaxWait == 8

\* the exception classes of the model, all subclasses of Exception
ExcTypes == {"ConnectionError", "ValueError"}
Ancestors(exc) == {exc, "Exception"}
\* exceptions=(Exception,): retry_wrapper.py:32 and :179
DefaultExceptions == {"Exception"}

RetryPolicy(max_attempts, initial_wait, max_wait, multiplier, exceptions) ==
    [max_attempts |-> max_attempts, initial_wait |-> initial_wait,
     max_wait |-> max_wait, multiplier |-> multiplier,
     exceptions |-> exceptions]
\* the Gemini policy with the retries lost (a single attempt)
GeminiPolicySingleAttempt ==
    RetryPolicy(1, GeminiInitialWait, GeminiMaxWait, DefaultMultiplier,
                DefaultExceptions)

\* retry_gemini_api(max_attempts=3) as applied to analyze_resume_text
GeminiPolicy ==
    RetryPolicy(GeminiMaxAttempts, GeminiInitialWait, GeminiMaxWait,
                DefaultMultiplier, DefaultExceptions)

Max(a, b) == IF a >= b THEN a ELSE b
Min(a, b) == IF a <= b THEN a ELSE b

\* stop_after_attempt off by one
StopAfterAttemptOffByOne(pol, n) == n > pol.max_attempts

\* stop=stop_after_attempt(max_attempts)
StopAfterAttempt(pol, n) == n >= pol.max_attempts
\* wait=wait_exponential(multiplier=multiplier, min=initial_wait, max=max_wait):
\* tenacity computes multiplier * exp_base^(attempt_number - 1) with exp_base 2
\* and clamps it to [min, max]
WaitExponential(pol, n) ==
    Max(Max(0, pol.initial_wait), Min(pol.multiplier * 2 ^ (n - 1), pol.max_wait))
\* retry=retry_if_exception_type(exceptions)
RetryIfExceptionType(pol, o) ==
    o.kind = "raise" /\ Ancestors(o.exc) \cap pol.exceptions # {}

\* sync_wrapper's own events for one run of its body (retry_wrapper.py:119-140)
WrapperEvents(o) ==
    <<"api_call_started",
      IF o.kind = "return" THEN "api_call_succeeded"
      ELSE "api_call_failed_all_retries">>

\* RetryIter as with reraise=True: exhaustion re-raises the last attempt's own
\* exception
RetryIterReraise(pol, n, o) ==
    IF ~RetryIfExceptionType(pol, o)
    THEN [do |-> "done", result |-> o, events |-> <<>>]
    ELSE IF StopAfterAttempt(pol, n)
    THEN [do |-> "done", result |-> o, events |-> <<"after_log">>]
    ELSE [do |-> "sleep", result |-> NotYet,
          events |-> <<"after_log", "before_sleep_log">>]

\* tenacity's iter() after an attempt with outcome o: hand the outcome to the
\* caller, raise RetryError from the last attempt, or sleep and try again
RetryIter(pol, n, o) ==
    IF ~RetryIfExceptionType(pol, o)
    THEN [do |-> "done", result |-> o, events |-> <<>>]
    ELSE IF StopAfterAttempt(pol, n)
    THEN [do |-> "done", result |-> Raise("RetryError", o.exc),
          events |-> <<"after_log">>]
    ELSE [do |-> "sleep", result |-> NotYet,
          events |-> <<"after_log", "before_sleep_log">>]

\* one attempt of the decorated call whose body gave outcome o
AttemptStep(o) ==
    LET d == RetryIter(policy, attempt_number, o)
    IN  /\ rpc = "attempt"
        /\ invocations' = invocations + 1
        /\ raised' = IF o.kind = "raise" THEN Append(raised, o.exc) ELSE raised
        /\ log' = log \o WrapperEvents(o) \o d.events
        /\ result' = d.result
        /\ rpc' = IF d.do = "sleep" THEN "sleep" ELSE "done"
        /\ UNCHANGED <<policy, fail_count, attempt_number, waits>>

\* the sleep between two attempts, then prepare_for_next_attempt
BackoffSleep ==
    /\ rpc = "sleep"
    /\ waits' = Append(waits, WaitExponential(policy, attempt_number))
    /\ attempt_number' = attempt_number + 1
    /\ rpc' = "attempt"
    /\ UNCHANGED <<policy, fail_count, raised, invocations, log, result>>

\* the retry loop before its first attempt, under policy pol
RetryStart(pol, k) ==
    /\ policy = pol
    /\ fail_count = k
    /\ raised = <<>>
    /\ attempt_number = 1
    /\ invocations = 0
    /\ waits = <<>>
    /\ log = <<>>
    /\ result = NotYet

(***************************************************************************)
(* The resumes table and ResumeService._get_cached_resume.                 *)
(***************************************************************************)
Users == {1, 2}
Contents == {"c1", "c2"}
\* Resume.compute_file_hash: SHA-256, hex encoded; distinct contents of the
\* model have distinct digests
ComputeFileHash(content) == "sha256:" \o content
Hashes == {ComputeFileHash(c) : c \in Contents}
Statuses == {"uploaded", "processing", "analyzed", "failed"}

ResumeRow(id, user_id, file_hash, status, analysis_result, error_message) ==
    [id |-> id, user_id |-> user_id, file_hash |-> file_hash,
     status |-> status, analysis_result |-> analysis_result,
     error_message |-> error_message]

\* the rows the query of resume_service.py:419-427 filters
CacheCandidates(table, user_id, file_hash) ==
    {i \in 1..Len(table) :
        /\ table[i].user_id = user_id
        /\ table[i].file_hash = file_hash
        /\ table[i].status = "analyzed"}

\* resume_service.py:429-451 on the row .first() gave: its id, or 0 for None
CacheCheck(row) ==
    IF Truthy(row.analysis_result) /\ "ats_score" \notin Keys(row.analysis_result)
    THEN 0
    ELSE row.id

\* Query.first() is LIMIT 1 without ORDER BY: the row the database's storage
\* order puts first among the filtered rows.  The order of two rows is the
\* database's choice, made when the later of them is written as 'analyzed';
\* `order' holds, per (user, hash), the row that is first.
QueryFirst(table, order, user_id, file_hash) ==
    IF CacheCandidates(table, user_id, file_hash) = {}
    THEN 0
    ELSE order[<<user_id, file_hash>>]

\* the rows that can be first once row id of (user_id, file_hash) is written
\* with the given status
PlaceRow(order, id, user_id, file_hash, status) ==
    IF status # "analyzed"
    THEN {order}
    ELSE IF order[<<user_id, file_hash>>] = 0
    THEN {[order EXCEPT ![<<user_id, file_hash>>] = id]}
    ELSE {order, [order EXCEPT ![<<user_id, file_hash>>] = id]}

NoOrder == [k \in Users \X Hashes |-> 0]

GetCachedResume(table, order, user_id, file_hash) ==
    LET first == QueryFirst(table, order, user_id, file_hash)
    IN  IF first = 0 THEN 0 ELSE CacheCheck(table[first])

\* GetResumeById with the filter on Resume.user_id left out
GetResumeByIdAnyOwner(table, resume_id, user_id) ==
    IF resume_id \in 1..Len(table) THEN resume_id ELSE 0

\* ResumeService.get_resume_by_id (resume_service.py:464-471): the id is the
\* primary key, so at most one row passes the filter; 0 stands for None
GetResumeById(table, resume_id, user_id) ==
    IF resume_id \in 1..Len(table) /\ table[resume_id].user_id = user_id
    THEN resume_id
    ELSE 0

(***************************************************************************)
(* The idle values of each part, for the specifications that leave it out. *)
(***************************************************************************)
NoQuery == [user_id |-> 0, file_hash |-> ""]
NoError == [prefix |-> "", exc |-> "", cause |-> ""]
NoRequest ==
    [user_id |-> 0, file_hash |-> "", outcome |-> "", resume_id |-> 0,
     returned |-> 0, exc |-> "", texts |-> <<>>]
NoPrev == [user_id |-> 0, file_hash |-> "", outcome |-> "", resume_id |-> 0]
ParseIdle == raw = <<>> /\ parsed = NotYet
RetryIdle == RetryStart(GeminiPolicy, 0) /\ rpc = "idle"
CacheIdle == query = NoQuery /\ cached = 0
NoLoop == [waiting |-> <<>>, accepted_at |-> 0]
UploadIdle == pc = "idle" /\ cur = NoRequest /\ prev = NoPrev /\ loop = NoLoop
NoFetch == [resume_id |-> 0, user_id |-> 0, found |-> 0]
NoCall ==
    [op |-> "", phase |-> "idle", user_id |-> 0, id |-> 0, question_count |-> 0,
     content |-> None, regenerate |-> FALSE,
     model_calls |-> 0, response |-> NotYet, outcome |-> NotYet]
ServiceIdle ==
    /\ fetched = NoFetch
    /\ cover_letters = <<>> /\ interviews = <<>>
    /\ call = NoCall

(***************************************************************************)
(* SpecParse: the parser applied once to a bounded response text.          *)
(***************************************************************************)
InitParse ==
    /\ raw \in Texts
    /\ parsed = NotYet
    /\ RetryIdle /\ CacheIdle /\ UploadIdle /\ ServiceIdle
    /\ resumes = <<>> /\ first_row = NoOrder

Parse ==
    /\ parsed = NotYet
    /\ parsed' = ParseAnalysisResponse(raw)
    /\ UNCHANGED <<raw, retryVars, dbVars, cacheVars, uploadVars, serviceVars>>

NextParse == Parse
SpecParse == InitParse /\ [][NextParse]_vars

(***************************************************************************)
(* SpecRetry: flaky_function (retry_wrapper.py:218-230) decorated under a  *)
(* bounded policy: it raises on its first fail_count invocations.          *)
(***************************************************************************)
Policies ==
    {RetryPolicy(m, iw, mw, mu, DefaultExceptions) :
        m \in 1..MaxAttempts, iw \in 1..MaxInitialWait,
        mw \in 1..MaxWait, mu \in 1..MaxMultiplier}
BoundedPolicies ==
    {p \in Policies : p.max_wait >= p.initial_wait} \cup {GeminiPolicy}

InitRetry ==
    /\ \E pol \in BoundedPolicies, k \in 0..MaxFail : RetryStart(pol, k)
    /\ rpc = "attempt"
    /\ ParseIdle /\ CacheIdle /\ UploadIdle /\ ServiceIdle
    /\ resumes = <<>> /\ first_row = NoOrder

FlakyFunction ==
    /\ IF invocations + 1 <= fail_count
       THEN \E e \in ExcTypes : AttemptStep(Raise(e, ""))
       ELSE AttemptStep(Return(Str("Success")))
    /\ UNCHANGED <<parseVars, dbVars, cacheVars, uploadVars, serviceVars>>

FlakySleep ==
    /\ BackoffSleep
    /\ UNCHANGED <<parseVars, dbVars, cacheVars, uploadVars, serviceVars>>

NextRetry == FlakyFunction \/ FlakySleep
SpecRetry == InitRetry /\ [][NextRetry]_vars

(***************************************************************************)
(* SpecCache: rows are stored directly (as test_get_cached_resume does)    *)
(* and the cache is looked up.                                             *)
(***************************************************************************)
\* the analysis of the standard shape (tests/test_resume.py:72-99)
StandardAnalysis == ModelObject(RequiredFields)
StoredPayloads ==
    {None, EmptyDict, StandardAnalysis, ModelObject(ModelKeys)}

InitCache ==
    /\ resumes = <<>> /\ first_row = NoOrder
    /\ CacheIdle
    /\ ParseIdle /\ RetryIdle /\ UploadIdle /\ ServiceIdle

\* db.add(resume); db.commit()
StoreResume ==
    /\ Len(resumes) < MaxRows
    /\ \E u \in Users, h \in Hashes, st \in Statuses, a \in StoredPayloads :
          /\ resumes' = Append(resumes,
                 ResumeRow(Len(resumes) + 1, u, h, st, a, NoError))
          /\ first_row' \in PlaceRow(first_row, Len(resumes) + 1, u, h, st)
    /\ query' = NoQuery
    /\ cached' = 0
    /\ UNCHANGED <<parseVars, retryVars, uploadVars, serviceVars>>

\* service._get_cached_resume(user_id, file_hash)
LookupCache ==
    /\ \E u \in Users, h \in Hashes :
          /\ query' = [user_id |-> u, file_hash |-> h]
          /\ cached' = GetCachedResume(resumes, first_row, u, h)
    /\ UNCHANGED <<dbVars, parseVars, retryVars, uploadVars, serviceVars>>

\* GET /{resume_id}/analysis: resume_service.get_resume_by_id(resume_id, user_id)
FetchResume ==
    /\ \E id \in 1..MaxRows, u \in Users :
          fetched' = [resume_id |-> id, user_id |-> u,
                      found |-> GetResumeById(resumes, id, u)]
    /\ UNCHANGED <<dbVars, cacheVars, parseVars, retryVars, uploadVars,
                   cover_letters, interviews, call>>

NextCache == StoreResume \/ LookupCache \/ FetchResume
SpecCache == InitCache /\ [][NextCache]_vars

(***************************************************************************)
(* Spec: ResumeService.upload_and_analyze_resume, one request at a time.   *)
(* After `await file.read()' the handler never awaits again, so a request  *)
(* runs from its cache lookup to its return without another in between.    *)
(* The handler is cut where the external model is called and where the     *)
(* retry loop sleeps.                                                      *)
(***************************************************************************)
\* an uploaded file: its bytes, whether _validate_file accepts its type and
\* whether it exceeds settings.max_upload_size_mb
UploadFile(content, type_ok, too_large) ==
    [content |-> content, type_ok |-> type_ok, too_large |-> too_large]
\* the uploads of the model: both users upload the same bytes; one upload
\* has a type that is not allowed, one exceeds the size limit
Uploads ==
    {<<u, UploadFile("c1", TRUE, FALSE)>> : u \in Users}
        \cup {<<1, UploadFile("c1", FALSE, FALSE)>>,
              <<1, UploadFile("c2", TRUE, TRUE)>>}

\* the texts response.text may hold
FencedText(value) ==
    <<Tok("fencejson"), Tok("ws"), value, Tok("ws"), Tok("fence")>>
ModelTexts ==
    {<<StandardAnalysis>>, <<ModelObject(ModelKeys)>>,
     FencedText(ModelObject({"skills"})), <<Tok("junk")>>, <<List(<<"a">>)>>}
\* what self.model.generate_content(prompt) / response.text may do
ModelResponses ==
    {Raise("ConnectionError", "")} \cup {Return(J("text", t)) : t \in ModelTexts}

\* analysis["analyzed_at"], analysis["model_used"] (gemini_client.py:154-156)
AddMetadata(analysis) ==
    Dict([k \in Keys(analysis) \cup {"analyzed_at", "model_used"} |->
            CASE k = "analyzed_at" -> Str("time.time()")
              [] k = "model_used" -> Str("settings.preferred_ai_model")
              [] OTHER -> analysis.v[k]])

\* AnalyzeResumeTextBody with the final `raise' (gemini_client.py:192) replaced
\* by the return of an empty analysis
AnalyzeResumeTextBodySwallowsError(response) ==
    IF response.kind = "raise"
    THEN Return(EmptyDict)
    ELSE LET analysis == ParseAnalysisResponse(response.value.v)
         IN  IF analysis.kind = "raise"
             THEN Return(EmptyDict)
             ELSE Return(AddMetadata(analysis.value))

\* the body of analyze_resume_text (gemini_client.py:144-192) given what the
\* model call did: any exception of the call or of the parser is re-raised
AnalyzeResumeTextBody(response) ==
    IF response.kind = "raise"
    THEN response
    ELSE LET analysis == ParseAnalysisResponse(response.value.v)
         IN  IF analysis.kind = "raise"
             THEN analysis
             ELSE Return(AddMetadata(analysis.value))

ErrorMessage(prefix, e) == [prefix |-> prefix, exc |-> e.exc, cause |-> e.cause]

Request(user_id, file_hash, outcome, resume_id, returned, exc, texts) ==
    [user_id |-> user_id, file_hash |-> file_hash, outcome |-> outcome,
     resume_id |-> resume_id, returned |-> returned, exc |-> exc,
     texts |-> texts]

\* UploadResumeStatus with the `except ValueError' clause left out
UploadResumeStatusNoValidationClause(exc, status) ==
    IF exc # "" THEN 500
    ELSE IF status = "analyzed" THEN 201 ELSE 500

\* the HTTP status of POST /upload (routers/resume.py:89-175) when the
\* handler raised exc ("" if it returned) or returned a resume of that status
UploadResumeStatus(exc, status) ==
    IF exc = "ValueError" THEN 400
    ELSE IF exc # "" THEN 500
    ELSE IF status = "analyzed" THEN 201 ELSE 500

Init ==
    /\ resumes = <<>> /\ first_row = NoOrder
    /\ UploadIdle
    /\ RetryIdle
    /\ ParseIdle /\ CacheIdle /\ ServiceIdle

\* resume_service.py:99-167: validation, fingerprint, cache lookup, the
\* committed 'processing' record and the text extraction
UploadStartWith(up, extracted) ==
    /\ pc = "idle"
    /\ Len(resumes) < MaxUploads
    /\   LET u == up[1]
             f == up[2]
             h == ComputeFileHash(f.content)
             id == Len(resumes) + 1
         IN  IF ~f.type_ok
             THEN /\ cur' = Request(u, h, "rejected", 0, 0, "ValueError", <<>>)
                  /\ pc' = "finished"
                  /\ UNCHANGED <<resumes, rpc>>
             ELSE LET c == GetCachedResume(resumes, first_row, u, h) IN
                  IF c # 0
                  THEN /\ cur' = Request(u, h, "hit", c, c, "", <<>>)
                       /\ pc' = "finished"
                       /\ UNCHANGED <<resumes, rpc>>
                  ELSE IF f.too_large
                  THEN /\ cur' = Request(u, h, "rejected", 0, 0, "ValueError", <<>>)
                       /\ pc' = "finished"
                       /\ UNCHANGED <<resumes, rpc>>
                  ELSE IF ~extracted
                  THEN /\ resumes' = Append(resumes,
                              ResumeRow(id, u, h, "failed", None,
                                  ErrorMessage("Text extraction failed: ",
                                               Raise("ValueError", ""))))
                       /\ cur' = Request(u, h, "failed", id, 0, "ValueError", <<>>)
                       /\ pc' = "finished"
                       /\ UNCHANGED rpc
                  ELSE /\ resumes' = Append(resumes,
                              ResumeRow(id, u, h, "processing", None, NoError))
                       /\ cur' = Request(u, h, "", id, 0, "", <<>>)
                       /\ pc' = "analyzing"
                       /\ rpc' = "attempt"
    /\ UNCHANGED <<policy, fail_count, raised, attempt_number, invocations,
                   waits, log, result, first_row, prev, parseVars, cacheVars,
                   serviceVars>>

\* an upload request served from its start without another one in between
UploadStart ==
    /\ \E up \in Uploads, extracted \in BOOLEAN : UploadStartWith(up, extracted)
    /\ UNCHANGED loop

\* one run of analyze_resume_text under the retry decorator
AnalyzeResumeText ==
    /\ pc = "analyzing"
    /\ \E response \in ModelResponses :
          /\ AttemptStep(AnalyzeResumeTextBody(response))
          /\ cur' = IF response.kind = "return"
                    THEN [cur EXCEPT !.texts = Append(@, response.value.v)]
                    ELSE cur
    /\ UNCHANGED <<dbVars, pc, prev, loop, parseVars, cacheVars, serviceVars>>

\* the retry loop's sleep between two attempts
AnalyzeSleep ==
    /\ pc = "analyzing"
    /\ BackoffSleep
    /\ UNCHANGED <<dbVars, uploadVars, parseVars, cacheVars, serviceVars>>

\* resume_service.py:176-192: the outcome of the decorated call is stored
UploadFinish ==
    /\ pc = "analyzing"
    /\ rpc = "done"
    /\ IF result.kind = "return"
       THEN /\ resumes' = [resumes EXCEPT ![cur.resume_id] =
                    [@ EXCEPT !.analysis_result = result.value,
                              !.status = "analyzed"]]
            /\ first_row' \in PlaceRow(first_row, cur.resume_id, cur.user_id,
                                        cur.file_hash, "analyzed")
            /\ cur' = [cur EXCEPT !.outcome = "analyzed",
                                  !.returned = cur.resume_id]
       ELSE /\ resumes' = [resumes EXCEPT ![cur.resume_id] =
                    [@ EXCEPT !.status = "failed",
                              !.error_message =
                                  ErrorMessage("Analysis failed: ", result)]]
            /\ cur' = [cur EXCEPT !.outcome = "failed", !.exc = result.exc]
            /\ UNCHANGED first_row
    /\ pc' = "finished"
    /\ UNCHANGED <<retryVars, prev, loop, parseVars, cacheVars, serviceVars>>

\* the handler has returned or raised; the next request may come
UploadReturn ==
    /\ pc = "finished"
    /\ pc' = "idle"
    /\ prev' = [user_id |-> cur.user_id, file_hash |-> cur.file_hash,
                outcome |-> cur.outcome, resume_id |-> cur.resume_id]
    /\ cur' = NoRequest
    /\ rpc' = "idle"
    /\ raised' = <<>>
    /\ attempt_number' = 1
    /\ invocations' = 0
    /\ waits' = <<>>
    /\ log' = <<>>
    /\ result' = NotYet
    /\ UNCHANGED <<policy, fail_count, dbVars, loop, parseVars, cacheVars,
                   serviceVars>>

Next ==
    \/ UploadStart
    \/ AnalyzeResumeText
    \/ AnalyzeSleep
    \/ UploadFinish
    \/ UploadReturn
Spec == Init /\ [][Next]_vars

(***************************************************************************)
(* SpecLoop: uploads that overlap on the server's event loop.  upload_resume *)
(* and upload_and_analyze_resume are coroutines run by the one event loop  *)
(* of the server process (main.py:260-269); `await file.read()' is the     *)
(* only place where a request is suspended.  What follows it, the cache    *)
(* lookup, the commits, analyze_resume_text and the sleeps of its retry    *)
(* loop (sync_wrapper: tenacity sleeps with time.sleep), runs on the loop  *)
(* without giving it up: no other request is started or resumed until the  *)
(* handler has returned.                                                   *)
(***************************************************************************)
\* a request suspended in file.read(), with the number of resumes stored
\* when it was accepted
Suspended(up, accepted_at) == [upload |-> up, accepted_at |-> accepted_at]
\* seq without its i-th element
RemoveAt(seq, i) == SubSeq(seq, 1, i - 1) \o SubSeq(seq, i + 1, Len(seq))

\* resume_service.py:99-104: a request arrives while the loop is free; its
\* file type is accepted and it is suspended reading the file
LoopAccept ==
    /\ pc = "idle"
    /\ Len(resumes) + Len(loop.waiting) < MaxWaiting
    /\ \E up \in Uploads :
         /\ up[2].type_ok
         /\ loop' = [loop EXCEPT
                        !.waiting = Append(@, Suspended(up, Len(resumes)))]
    /\ UNCHANGED <<pc, cur, prev, parseVars, retryVars, dbVars, cacheVars,
                   serviceVars>>

\* resume_service.py:104-167: the read of one suspended request is done and
\* the loop, being free, runs the request on
LoopResume ==
    \E i \in 1..Len(loop.waiting), extracted \in BOOLEAN :
        /\ UploadStartWith(loop.waiting[i].upload, extracted)
        /\ loop' = [waiting |-> RemoveAt(loop.waiting, i),
                    accepted_at |-> loop.waiting[i].accepted_at]

\* resume_service.py:99-101: a request whose file type is refused raises
\* before it reads the file
LoopReject ==
    /\ \E up \in Uploads : ~up[2].type_ok /\ UploadStartWith(up, TRUE)
    /\ UNCHANGED loop

NextLoop ==
    \/ LoopAccept
    \/ LoopResume
    \/ LoopReject
    \/ AnalyzeResumeText
    \/ AnalyzeSleep
    \/ UploadFinish
    \/ UploadReturn
SpecLoop == Init /\ [][NextLoop]_vars

(***************************************************************************)
(* The services that call the model directly.  Their response texts have   *)
(* one more token, "nl" (a line break), and an exception of the model call *)
(* carries its message, a sequence of words some of which are personal     *)
(* data.                                                                   *)
(***************************************************************************)
\* an exception with its message; str(e) is the message
RaiseWith(exc, message) ==
    [kind |-> "raise", value |-> J("msg", message), exc |-> exc, cause |-> ""]

\* utils/privacy.py: each scrubber replaces what its pattern matches
ScrubToken(text, pii, replacement) ==
    [i \in 1..Len(text) |-> IF text[i] = pii THEN replacement ELSE text[i]]
\* scrub_all_pii (utils/privacy.py:137-165)
ScrubAllPii(text) ==
    LET t1 == ScrubToken(text, "ssn", "[SSN]")
        t2 == ScrubToken(t1, "card", "[CARD]")
        t3 == ScrubToken(t2, "phone", "[PHONE]")
        t4 == ScrubToken(t3, "email", "[EMAIL]")
        t5 == ScrubToken(t4, "address", "[ADDRESS]")
    IN  ScrubToken(t5, "ip", "[IP]")

\* str.strip() on a text with line breaks
IsSpace(tok) == tok.ty \in {"ws", "nl"}
RECURSIVE LStripSpace(_)
LStripSpace(s) == IF s # <<>> /\ IsSpace(Head(s)) THEN LStripSpace(Tail(s)) ELSE s
RECURSIVE RStripSpace(_)
RStripSpace(s) ==
    IF s # <<>> /\ IsSpace(s[Len(s)])
    THEN RStripSpace(SubSeq(s, 1, Len(s) - 1))
    ELSE s
StripSpace(s) == RStripSpace(LStripSpace(s))
IsFence(tok) == tok.ty \in {"fence", "fencejson"}

\* the position of the first token of s that satisfies the test, else 0
FirstFence(s) ==
    IF \E i \in 1..Len(s) : IsFence(s[i])
    THEN CHOOSE i \in 1..Len(s) : IsFence(s[i]) /\ \A j \in 1..(i - 1) : ~IsFence(s[j])
    ELSE 0
FirstFenceJson(s) ==
    IF \E i \in 1..Len(s) : s[i].ty = "fencejson"
    THEN CHOOSE i \in 1..Len(s) :
             s[i].ty = "fencejson" /\ \A j \in 1..(i - 1) : s[j].ty # "fencejson"
    ELSE 0
FirstNewline(s) ==
    IF \E i \in 1..Len(s) : s[i].ty = "nl"
    THEN CHOOSE i \in 1..Len(s) : s[i].ty = "nl" /\ \A j \in 1..(i - 1) : s[j].ty # "nl"
    ELSE 0
\* s.split(fence)[0]: the text before the first ``` (```json holds one)
UpToFence(s) ==
    IF FirstFence(s) = 0 THEN s ELSE SubSeq(s, 1, FirstFence(s) - 1)

\* json.loads, white space and line breaks around exactly one value
JsonLoadsText(s) ==
    LET t == StripSpace(s)
    IN  IF Len(t) = 1 /\ t[1].ty \in ValueTypes
        THEN Return(t[1])
        ELSE Raise("JSONDecodeError", "")

\* dict.get(k, default)
Get(d, k, default) == IF k \in Keys(d) THEN d.v[k] ELSE default
\* int(x) of a decoded JSON value (the numbers of the model are whole)
IntOf(x) ==
    CASE x.ty = "num" -> Return(x)
      [] x.ty = "str" -> Raise("ValueError", "")
      [] OTHER -> Raise("TypeError", "")
\* min(hi, max(lo, n))
Clamp(lo, hi, n) == Min(hi, Max(lo, n))
\* seq[:n] of a sequence
Prefix(s, n) == SubSeq(s, 1, Min(n, Len(s)))

\* interview_service.py:415-419 and 500-504: the text between the first
\* ```json (else the first ```) and the fence after it
ExtractFenced(response) ==
    LET t == StripSpace(response)
    IN  IF FirstFenceJson(t) # 0
        THEN UpToFence(SubSeq(t, FirstFenceJson(t) + 1, Len(t)))
        ELSE IF FirstFence(t) # 0
        THEN UpToFence(SubSeq(t, FirstFence(t) + 1, Len(t)))
        ELSE t

\* the first exception among the results of a comprehension, else the list
\* of their values
AllOrFirstRaise(results) ==
    IF \E i \in 1..Len(results) : results[i].kind = "raise"
    THEN results[CHOOSE i \in 1..Len(results) :
                    /\ results[i].kind = "raise"
                    /\ \A j \in 1..(i - 1) : results[j].kind # "raise"]
    ELSE Return(List([i \in 1..Len(results) |-> results[i].value]))

(***************************************************************************)
(* InterviewService: the question and evaluation normalizers.              *)
(***************************************************************************)
QuestionKeys ==
    {"id", "question", "type", "difficulty", "expected_topics",
     "time_limit_seconds", "tips"}
\* one entry of the loop of interview_service.py:425-434
NormalizeQuestion(q, i) ==
    IF ~IsDict(q)
    THEN Raise("AttributeError", "")
    ELSE LET d == IntOf(Get(q, "difficulty", Num(3)))
         IN  IF d.kind = "raise"
             THEN d
             ELSE Return(Dict([k \in QuestionKeys |->
                     CASE k = "id" -> Num(i)
                       [] k = "question" -> Get(q, "question", Str(""))
                       [] k = "type" -> Get(q, "type", Str("behavioral"))
                       [] k = "difficulty" -> Num(Clamp(1, 5, d.value.v))
                       [] k = "expected_topics" ->
                              Get(q, "expected_topics", List(<<>>))
                       [] k = "time_limit_seconds" ->
                              Get(q, "time_limit_seconds", Num(120))
                       [] OTHER -> Get(q, "tips", Str(""))]))

\* _get_fallback_questions (interview_service.py:551-628): the first `count'
\* of five canned questions
CannedQuestions ==
    <<[question |-> "motivation", type |-> "behavioral"],
      [question |-> "challenging project", type |-> "behavioral"],
      [question |-> "team conflict", type |-> "situational"],
      [question |-> "strengths and weaknesses", type |-> "behavioral"],
      [question |-> "five years", type |-> "behavioral"]>>
GetFallbackQuestions(count) ==
    List([i \in 1..Min(count, Len(CannedQuestions)) |->
            Dict([k \in QuestionKeys |->
                CASE k = "id" -> Num(i)
                  [] k = "question" -> Str(CannedQuestions[i].question)
                  [] k = "type" -> Str(CannedQuestions[i].type)
                  [] k = "difficulty" -> Num(3)
                  [] k = "expected_topics" -> List(<<Str("topics")>>)
                  [] k = "time_limit_seconds" -> Num(120)
                  [] OTHER -> Str("")])])

\* interview_service.py:412-445 on the text generate_content returned.
\* questions[:question_count] of a number or null raises TypeError, as it
\* does of an object (KeyError from Python 3.12 on, uncaught as well); the
\* characters of a string have no .get
ParseQuestions(response, question_count) ==
    LET decoded == JsonLoadsText(ExtractFenced(response))
    IN  IF decoded.kind = "raise"
        THEN Return(GetFallbackQuestions(question_count))
        ELSE CASE decoded.value.ty = "arr" ->
                    AllOrFirstRaise(
                        [i \in 1..Min(question_count, Len(decoded.value.v)) |->
                            NormalizeQuestion(decoded.value.v[i], i)])
               [] decoded.value.ty = "str" ->
                    IF decoded.value.v = "" THEN Return(List(<<>>))
                    ELSE Raise("AttributeError", "")
               [] OTHER -> Raise("TypeError", "")

EvaluationKeys == {"score", "strengths", "improvements", "feedback", "model_answer"}
\* evaluation.get(k, [])[:5]
FirstFive(x) ==
    CASE x.ty = "arr" -> Return(List(Prefix(x.v, 5)))
      [] x.ty = "str" -> Return(x)
      [] OTHER -> Raise("TypeError", "")
\* interview_service.py:523-529
FallbackEvaluation ==
    Dict([k \in EvaluationKeys |->
            CASE k = "score" -> Num(60)
              [] k = "strengths" -> List(<<Str("submitted")>>)
              [] k = "improvements" -> List(<<Str("be more specific")>>)
              [] k = "feedback" -> Str("evaluated")
              [] OTHER -> Str("")])
\* interview_service.py:498-529 on the text generate_content returned
ParseEvaluation(response) ==
    LET decoded == JsonLoadsText(ExtractFenced(response))
    IN  IF decoded.kind = "raise"
        THEN Return(FallbackEvaluation)
        ELSE IF ~IsDict(decoded.value)
        THEN Raise("AttributeError", "")
        ELSE LET e == decoded.value
                 score == IntOf(Get(e, "score", Num(50)))
                 strengths == FirstFive(Get(e, "strengths", List(<<>>)))
                 improvements == FirstFive(Get(e, "improvements", List(<<>>)))
             IN  IF score.kind = "raise" THEN score
                 ELSE IF strengths.kind = "raise" THEN strengths
                 ELSE IF improvements.kind = "raise" THEN improvements
                 ELSE Return(Dict([k \in EvaluationKeys |->
                         CASE k = "score" -> Num(Clamp(0, 100, score.value.v))
                           [] k = "strengths" -> strengths.value
                           [] k = "improvements" -> improvements.value
                           [] k = "feedback" -> Get(e, "feedback", Str("done"))
                           [] OTHER -> Get(e, "model_answer", Str(""))]))

(***************************************************************************)
(* JobService: the recommendation and match-analysis normalizers.          *)
(***************************************************************************)
RecommendationKeys ==
    {"title", "company_type", "industry", "location", "job_type",
     "experience_level", "match_score", "match_reason", "matching_skills",
     "skills_to_develop", "sample_companies"}
\* the defaults of job_service.py:313-323
RecommendationDefault(k) ==
    CASE k = "title" -> Str("Unknown Position")
      [] k = "company_type" -> Str("Various")
      [] k = "industry" -> Str("Technology")
      [] k = "location" -> Str("Various")
      [] k = "job_type" -> Str("full-time")
      [] k = "experience_level" -> Str("mid")
      [] k = "match_score" -> Num(70)
      [] k = "match_reason" -> Str("Good skill match")
      [] OTHER -> List(<<>>)
\* min(100, max(0, x)) of a decoded value: comparing a number with a value
\* that is none raises TypeError
ClampScore(x) ==
    IF x.ty = "num" THEN Return(Num(Clamp(0, 100, x.v))) ELSE Raise("TypeError", "")
\* one entry of the loop of job_service.py:311-324
NormalizeRecommendation(rec) ==
    IF ~IsDict(rec)
    THEN Raise("AttributeError", "")
    ELSE LET score == ClampScore(Get(rec, "match_score", RecommendationDefault("match_score")))
         IN  IF score.kind = "raise"
             THEN score
             ELSE Return(Dict([k \in RecommendationKeys |->
                     IF k = "match_score" THEN score.value
                     ELSE Get(rec, k, RecommendationDefault(k))]))
\* job_service.py:336-349
FallbackRecommendations ==
    List(<<Dict([k \in RecommendationKeys \cup {"parse_error"} |->
            CASE k = "title" -> Str("Software Engineer")
              [] k = "match_score" -> Num(75)
              [] k = "match_reason" -> Str("Based on your technical skills")
              [] k = "parse_error" -> Str("JSONDecodeError")
              [] OTHER -> RecommendationDefault(k)])>>)
\* JobService._parse_recommendations_response (job_service.py:290-349)
ParseRecommendationsResponse(response_text) ==
    LET t1 == StripSpace(response_text)
        t2 == IF StartsWith(t1, "fencejson") THEN Tail(t1) ELSE t1
        t3 == IF StartsWith(t2, "fence") THEN Tail(t2) ELSE t2
        t4 == IF EndsWith(t3, "fence") THEN SubSeq(t3, 1, Len(t3) - 1) ELSE t3
        decoded == JsonLoadsText(t4)
    IN  IF decoded.kind = "raise"
        THEN Return(FallbackRecommendations)
        ELSE LET recs == IF decoded.value.ty = "arr"
                         THEN decoded.value.v
                         ELSE <<decoded.value>>
             IN  AllOrFirstRaise([i \in 1..Len(recs) |-> NormalizeRecommendation(recs[i])])

\* job_service.py:489-498
FallbackMatchAnalysis ==
    Dict([k \in {"match_score", "match_level", "matching_skills",
                 "missing_skills", "relevant_strengths", "improvement_areas",
                 "recommendation", "parse_error"} |->
            CASE k = "match_score" -> Num(70)
              [] k = "match_level" -> Str("Moderate Match")
              [] k = "recommendation" -> Str("Please review the job requirements carefully.")
              [] k = "parse_error" -> Str("JSONDecodeError")
              [] OTHER -> List(<<>>)])
\* job_service.py:469-498 on response.text: the first line of a fenced text
\* is dropped (its first three characters if it has one line only), a
\* closing fence is dropped, and the decoded value is returned as it is
\* with analyzed_at and model_used set on it
ParseMatchAnalysis(response_text) ==
    LET t1 == StripSpace(response_text)
        t2 == IF t1 # <<>> /\ IsFence(Head(t1))
              THEN IF FirstNewline(t1) # 0
                   THEN SubSeq(t1, FirstNewline(t1) + 1, Len(t1))
                   ELSE IF Head(t1).ty = "fencejson"
                        THEN <<Tok("junk")>> \o Tail(t1)
                        ELSE Tail(t1)
              ELSE t1
        t3 == IF EndsWith(t2, "fence") THEN SubSeq(t2, 1, Len(t2) - 1) ELSE t2
        decoded == JsonLoadsText(t3)
    IN  IF decoded.kind = "raise"
        THEN Return(FallbackMatchAnalysis)
        ELSE IF ~IsDict(decoded.value)
        THEN Raise("TypeError", "")
        ELSE Return(AddMetadata(decoded.value))

(***************************************************************************)
(* CoverLetterService._generate_with_gemini: the cleaning of the text.     *)
(***************************************************************************)
LastNewline(s) ==
    IF \E i \in 1..Len(s) : s[i].ty = "nl"
    THEN CHOOSE i \in 1..Len(s) :
             s[i].ty = "nl" /\ \A j \in (i + 1)..Len(s) : s[j].ty # "nl"
    ELSE 0
\* cover_letter_service.py:253-261: of a text that starts with a fence the
\* first line is dropped, and the last line if it is a fence
CleanCoverLetter(response_text) ==
    LET content == StripSpace(response_text)
    IN  IF content # <<>> /\ IsFence(Head(content))
        THEN IF FirstNewline(content) = 0
             THEN <<>>
             ELSE IF SubSeq(content, LastNewline(content) + 1, Len(content))
                        = <<Tok("fence")>>
                  THEN SubSeq(content, FirstNewline(content) + 1,
                              LastNewline(content) - 1)
                  ELSE SubSeq(content, FirstNewline(content) + 1, Len(content))
        ELSE content

(***************************************************************************)
(* SpecServices: uploads, cover letters, interviews and the job services,  *)
(* one request at a time.  None of the handlers awaits anything but        *)
(* coroutines that never suspend, so a request runs to its end before the  *)
(* next one starts.  generate_cover_letter and generate_interview are cut  *)
(* where they have committed the 'generating' record and call the model.   *)
(***************************************************************************)
\* the messages an exception of the model call may carry
ExcMessages == {<<"word">>, <<"word", "email">>}
\* str(e) of an exception: its message, or the name of one raised without
MessageOf(e) == IF e.value.ty = "msg" THEN e.value.v ELSE <<e.exc>>

FencedLines(value) ==
    <<Tok("fencejson"), Tok("nl"), value, Tok("nl"), Tok("fence")>>
\* what self.model.generate_content(prompt) may do, given the texts it may return
ServiceResponses(texts) ==
    {RaiseWith("ConnectionError", m) : m \in ExcMessages}
        \cup {Return(J("text", t)) : t \in texts}

CoverLetterTexts ==
    {<<Tok("junk")>>,
     <<Tok("fence"), Tok("nl"), Tok("junk"), Tok("nl"), Tok("fence")>>}
Question(difficulty) ==
    Dict([k \in {"question", "difficulty"} |->
            IF k = "question" THEN Str("q") ELSE difficulty])
QuestionTexts ==
    {<<List(<<Question(Num(7)), Question(Num(3)), Question(Num(0))>>)>>,
     FencedLines(List(<<Question(Num(7)), Question(Num(3)), Question(Num(0))>>)),
     <<List(<<>>)>>,
     <<List(<<Question(Str("hard"))>>)>>,
     <<Question(Num(3))>>,
     <<List(<<Str("q")>>)>>,
     <<Tok("junk")>>}
Evaluation(score) ==
    Dict([k \in {"score", "feedback"} |->
            IF k = "score" THEN score ELSE Str("good")])
EvaluationTexts ==
    {<<Evaluation(Num(150))>>,
     <<Evaluation(Num(0 - 20))>>,
     FencedLines(Evaluation(Num(150))),
     <<Evaluation(Str("high"))>>,
     <<List(<<>>)>>,
     <<Tok("junk")>>}
Recommendation(score) ==
    Dict([k \in {"title", "match_score"} |->
            IF k = "title" THEN Str("Engineer") ELSE score])
RecommendationTexts ==
    {<<List(<<Recommendation(Num(150)), Recommendation(Num(0 - 20))>>)>>,
     FencedLines(List(<<Recommendation(Num(85))>>)),
     <<Recommendation(Num(85))>>,
     <<List(<<Recommendation(None)>>)>>,
     <<List(<<Str("job")>>)>>,
     <<Tok("junk")>>}
MatchAnalysis(score) ==
    Dict([k \in {"match_score", "match_level"} |->
            IF k = "match_score" THEN score ELSE Str("Good Match")])
MatchTexts ==
    {<<MatchAnalysis(Num(150))>>,
     <<MatchAnalysis(Num(0 - 20))>>,
     FencedLines(MatchAnalysis(Num(85))),
     <<Tok("fencejson"), Tok("ws"), MatchAnalysis(Num(85)), Tok("ws"), Tok("fence")>>,
     <<Dict([k \in {"match_level"} |-> Str("Good Match")])>>,
     <<List(<<>>)>>,
     <<Tok("junk")>>}

CoverLetterRow(id, user_id, status, version, content, error_message) ==
    [id |-> id, user_id |-> user_id, status |-> status, version |-> version,
     content |-> content, error_message |-> error_message]
InterviewRow(id, user_id, status, questions, answers, completed_questions, total_score, error_message) ==
    [id |-> id, user_id |-> user_id, status |-> status,
     questions |-> questions, answers |-> answers,
     completed_questions |-> completed_questions,
     total_score |-> total_score, error_message |-> error_message]

Call(op, phase, user_id, id, model_calls, response, outcome) ==
    [op |-> op, phase |-> phase, user_id |-> user_id, id |-> id,
     question_count |-> 0, content |-> None, regenerate |-> FALSE,
     model_calls |-> model_calls, response |-> response, outcome |-> outcome]
ArtifactCount == Len(resumes) + Len(cover_letters) + Len(interviews)
ServiceReady == pc = "idle" /\ call.phase = "idle"

\* CoverLetterService._generate_with_gemini (cover_letter_service.py:212-261):
\* one call of the model, not decorated
GenerateWithGemini(response) ==
    IF response.kind = "raise"
    THEN response
    ELSE Return(J("text", CleanCoverLetter(response.value.v)))

\* CoverLetterService.get_cover_letter_by_id (cover_letter_service.py:438-447)
GetCoverLetterById(table, cover_letter_id, user_id) ==
    IF cover_letter_id \in 1..Len(table) /\ table[cover_letter_id].user_id = user_id
    THEN cover_letter_id
    ELSE 0

\* _get_user_resume of the job and cover-letter services (job_service.py:
\* 500-510): the user's resume of that id if it is analyzed
GetUserResume(table, resume_id, user_id) ==
    IF /\ resume_id \in 1..Len(table)
       /\ table[resume_id].user_id = user_id
       /\ table[resume_id].status = "analyzed"
    THEN resume_id
    ELSE 0

\* GenerateCoverLetterStart with the commit of the new record put off until
\* the model call has ended: the stored table does not hold it yet
GenerateCoverLetterStartUncommitted ==
    /\ ServiceReady
    /\ ArtifactCount < MaxArtifacts
    /\ \E u \in Users :
         call' = Call("generate_cover_letter", "calling", u,
                      Len(cover_letters) + 1, 0, NotYet, NotYet)
    /\ UNCHANGED <<parseVars, retryVars, dbVars, cacheVars, uploadVars,
                   fetched, cover_letters, interviews>>

\* cover_letter_service.py:101-133: the 'generating' record is committed
GenerateCoverLetterStart ==
    /\ ServiceReady
    /\ ArtifactCount < MaxArtifacts
    /\ \E u \in Users :
         LET id == Len(cover_letters) + 1
         IN  /\ cover_letters' = Append(cover_letters,
                    CoverLetterRow(id, u, "generating", 1, None, None))
             /\ call' = Call("generate_cover_letter", "calling", u, id, 0,
                             NotYet, NotYet)
    /\ UNCHANGED <<parseVars, retryVars, dbVars, cacheVars, uploadVars,
                   fetched, interviews>>

\* cover_letter_service.py:142-175: the model call and its outcome
GenerateCoverLetterFinish ==
    /\ call.phase = "calling"
    /\ call.op = "generate_cover_letter"
    /\ \E response \in ServiceResponses(CoverLetterTexts) :
         LET o == GenerateWithGemini(response)
         IN  /\ cover_letters' = [cover_letters EXCEPT ![call.id] =
                    IF o.kind = "return"
                    THEN [@ EXCEPT !.content = o.value, !.status = "generated"]
                    ELSE [@ EXCEPT !.status = "failed",
                                   !.error_message =
                                       J("msg", <<"Generation failed: ">>
                                                    \o MessageOf(o))]]
             /\ call' = [call EXCEPT !.phase = "done", !.model_calls = 1,
                                     !.response = response,
                                     !.outcome = IF o.kind = "return"
                                                 THEN Return(Num(call.id))
                                                 ELSE o]
    /\ UNCHANGED <<parseVars, retryVars, dbVars, cacheVars, uploadVars,
                   fetched, interviews>>

\* the contents update_cover_letter may be given
EditedContents == {None, Str(""), Str("edited")}

\* UpdatedCoverLetter with the regenerated letter marked 'generated' again
UpdatedCoverLetterResetsStatus(row, content, regenerate, o) ==
    IF regenerate
    THEN IF o.kind = "return"
         THEN [row EXCEPT !.content = o.value, !.version = @ + 1,
                          !.status = "generated"]
         ELSE row
    ELSE IF Truthy(content)
    THEN [row EXCEPT !.content = content, !.version = @ + 1]
    ELSE row

\* UpdatedCoverLetter with the version of a manual edit left as it was
UpdatedCoverLetterEditKeepsVersion(row, content, regenerate, o) ==
    IF regenerate
    THEN IF o.kind = "return"
         THEN [row EXCEPT !.content = o.value, !.version = @ + 1]
         ELSE row
    ELSE IF Truthy(content)
    THEN [row EXCEPT !.content = content]
    ELSE row

\* cover_letter_service.py:396-432: the record after the update, o being
\* what the model call of a regeneration did.  When that call raises the
\* handler is left before anything has been changed.
UpdatedCoverLetter(row, content, regenerate, o) ==
    IF regenerate
    THEN IF o.kind = "return"
         THEN [row EXCEPT !.content = o.value, !.version = @ + 1]
         ELSE row
    ELSE IF Truthy(content)
    THEN [row EXCEPT !.content = content, !.version = @ + 1]
    ELSE row

\* CoverLetterService.update_cover_letter (cover_letter_service.py:371-436)
UpdateCoverLetter ==
    /\ ServiceReady
    /\ \E u \in Users, id \in 1..MaxArtifacts, content \in EditedContents,
          regenerate \in BOOLEAN, response \in ServiceResponses(CoverLetterTexts) :
         LET found == GetCoverLetterById(cover_letters, id, u)
             o == GenerateWithGemini(response)
         IN  IF found = 0
             THEN /\ call' = Call("update_cover_letter", "done", u, id, 0, NotYet,
                                  RaiseWith("ValueError", <<"Cover letter not found">>))
                  /\ UNCHANGED cover_letters
             ELSE /\ cover_letters[found].version < MaxVersion
                  /\ call' = [(IF regenerate
                               THEN Call("update_cover_letter", "done", u, id, 1,
                                         response,
                                         IF o.kind = "return"
                                         THEN Return(Num(id)) ELSE o)
                               ELSE Call("update_cover_letter", "done", u, id, 0,
                                         NotYet, Return(Num(id))))
                              EXCEPT !.content = content,
                                     !.regenerate = regenerate]
                  /\ cover_letters' = [cover_letters EXCEPT ![found] =
                        UpdatedCoverLetter(@, content, regenerate, o)]
    /\ UNCHANGED <<parseVars, retryVars, dbVars, cacheVars, uploadVars,
                   fetched, interviews>>

\* the question_count arguments a request may carry
QuestionCounts == {0, 2}
\* the question ids an answer may name
QuestionIds == 1..2

\* GeminiClient.generate_content (gemini_client.py:62-103): one call of the
\* model, not decorated; what the model raises is logged and raised again
GenerateContent(response) == response

\* InterviewService._generate_questions_with_gemini (interview_service.py:
\* 327-445)
GenerateQuestionsWithGemini(response, question_count) ==
    LET r == GenerateContent(response)
    IN  IF r.kind = "raise" THEN r ELSE ParseQuestions(r.value.v, question_count)

\* InterviewService._evaluate_with_gemini (interview_service.py:447-529)
EvaluateWithGemini(response) ==
    LET r == GenerateContent(response)
    IN  IF r.kind = "raise" THEN r ELSE ParseEvaluation(r.value.v)

\* interview_service.py:101-151: the 'generating' record is committed; the
\* columns questions and answers default to []
GenerateInterviewStart ==
    /\ ServiceReady
    /\ ArtifactCount < MaxArtifacts
    /\ \E u \in Users, question_count \in QuestionCounts :
         LET id == Len(interviews) + 1
         IN  /\ interviews' = Append(interviews,
                    InterviewRow(id, u, "generating", List(<<>>), <<>>, 0,
                                 None, None))
             /\ call' = [Call("generate_interview", "calling", u, id, 0,
                              NotYet, NotYet)
                         EXCEPT !.question_count = Clamp(1, 10, question_count)]
    /\ UNCHANGED <<parseVars, retryVars, dbVars, cacheVars, uploadVars,
                   fetched, cover_letters>>

\* GenerateInterviewFinish without the handler of lines 180-184: a failed
\* generation raises and the record keeps the status it was created with
GenerateInterviewFinishNoHandler ==
    /\ call.phase = "calling"
    /\ call.op = "generate_interview"
    /\ \E response \in ServiceResponses(QuestionTexts) :
         LET o == GenerateQuestionsWithGemini(response, call.question_count)
         IN  /\ interviews' = [interviews EXCEPT ![call.id] =
                    IF o.kind = "return"
                    THEN [@ EXCEPT !.questions = o.value, !.status = "ready"]
                    ELSE @]
             /\ call' = [call EXCEPT !.phase = "done", !.model_calls = 1,
                                     !.response = response,
                                     !.outcome = IF o.kind = "return"
                                                 THEN Return(Num(call.id))
                                                 ELSE o]
    /\ UNCHANGED <<parseVars, retryVars, dbVars, cacheVars, uploadVars,
                   fetched, cover_letters>>

\* interview_service.py:153-184: the model call and its outcome
GenerateInterviewFinish ==
    /\ call.phase = "calling"
    /\ call.op = "generate_interview"
    /\ \E response \in ServiceResponses(QuestionTexts) :
         LET o == GenerateQuestionsWithGemini(response, call.question_count)
         IN  /\ interviews' = [interviews EXCEPT ![call.id] =
                    IF o.kind = "return"
                    THEN [@ EXCEPT !.questions = o.value, !.status = "ready"]
                    ELSE [@ EXCEPT !.status = "failed",
                                   !.error_message = J("msg", MessageOf(o))]]
             /\ call' = [call EXCEPT !.phase = "done", !.model_calls = 1,
                                     !.response = response,
                                     !.outcome = IF o.kind = "return"
                                                 THEN Return(Num(call.id))
                                                 ELSE o]
    /\ UNCHANGED <<parseVars, retryVars, dbVars, cacheVars, uploadVars,
                   fetched, cover_letters>>

\* the interview of that id if it is the user's (interview_service.py:236-239)
GetInterview(table, interview_id, user_id) ==
    IF interview_id \in 1..Len(table) /\ table[interview_id].user_id = user_id
    THEN interview_id
    ELSE 0
\* the question of that id (interview_service.py:248-252)
HasQuestion(questions, question_id) ==
    \E i \in 1..Len(questions.v) : questions.v[i].v["id"] = Num(question_id)
\* interview_service.py:276-285: the record replaces the one of the same
\* question, else it is appended
PutAnswer(answers, record) ==
    IF \E i \in 1..Len(answers) : answers[i].question_id = record.question_id
    THEN [i \in 1..Len(answers) |->
            IF i = (CHOOSE j \in 1..Len(answers) :
                        /\ answers[j].question_id = record.question_id
                        /\ \A k \in 1..(j - 1) :
                              answers[k].question_id # record.question_id)
            THEN record ELSE answers[i]]
    ELSE Append(answers, record)
RECURSIVE SumScores(_)
SumScores(answers) ==
    IF answers = <<>> THEN 0
    ELSE Head(answers).evaluation.v["score"].v + SumScores(Tail(answers))
\* Interview.calculate_total_score (models/interview.py:139-148), in tenths;
\* every evaluation is a non-empty dict with a score
CalculateTotalScore(answers) ==
    IF answers = <<>> THEN 0 ELSE (10 * SumScores(answers)) \div Len(answers)

\* EvaluateAnswer with the move from 'ready' to 'in_progress' of lines
\* 256-259 committed before the model is called: it outlives a failed call
EvaluateAnswerCommitsStart ==
    /\ ServiceReady
    /\ \E u \in Users, id \in 1..MaxArtifacts, question_id \in QuestionIds,
          response \in ServiceResponses(EvaluationTexts) :
         LET found == GetInterview(interviews, id, u)
             failed(message) ==
                 /\ call' = Call("evaluate_answer", "done", u, id, 0, NotYet,
                                 RaiseWith("ValueError", message))
                 /\ UNCHANGED interviews
         IN  IF found = 0
             THEN failed(<<"Interview not found">>)
             ELSE IF ~Truthy(interviews[found].questions)
             THEN failed(<<"Interview has no questions">>)
             ELSE IF ~HasQuestion(interviews[found].questions, question_id)
             THEN failed(<<"Question not found in interview">>)
             ELSE
               LET interview == interviews[found]
                   o == EvaluateWithGemini(response)
                   record == [question_id |-> question_id, evaluation |-> o.value]
                   answers == PutAnswer(interview.answers, record)
                   completed == Len(answers) >= Len(interview.questions.v)
               IN  /\ call' = Call("evaluate_answer", "done", u, id, 1,
                                   response, o)
                   /\ interviews' =
                        IF o.kind = "raise"
                        THEN [interviews EXCEPT ![found].status =
                                IF @ = "ready" THEN "in_progress" ELSE @]
                        ELSE [interviews EXCEPT ![found] =
                                [@ EXCEPT
                                   !.status =
                                       IF completed THEN "completed"
                                       ELSE IF @ = "ready" THEN "in_progress"
                                       ELSE @,
                                   !.answers =
                                       IF interview.answers = <<>>
                                       THEN answers ELSE @,
                                   !.completed_questions = Len(answers),
                                   !.total_score =
                                       IF completed
                                       THEN Num(CalculateTotalScore(answers))
                                       ELSE @]]
    /\ UNCHANGED <<parseVars, retryVars, dbVars, cacheVars, uploadVars,
                   fetched, cover_letters>>

\* InterviewService.evaluate_answer (interview_service.py:201-325).  An
\* exception of the model call or of the parser leaves the handler before
\* the commit, so nothing of the request is stored.  The answers column is
\* a plain JSONB column: when the loaded list is not empty the record is
\* put into that very list, the assignment of the list to the attribute it
\* came from is no change for the session, and the column is not written.
EvaluateAnswer ==
    /\ ServiceReady
    /\ \E u \in Users, id \in 1..MaxArtifacts, question_id \in QuestionIds,
          response \in ServiceResponses(EvaluationTexts) :
         LET found == GetInterview(interviews, id, u)
             failed(message) ==
                 /\ call' = Call("evaluate_answer", "done", u, id, 0, NotYet,
                                 RaiseWith("ValueError", message))
                 /\ UNCHANGED interviews
         IN  IF found = 0
             THEN failed(<<"Interview not found">>)
             ELSE IF ~Truthy(interviews[found].questions)
             THEN failed(<<"Interview has no questions">>)
             ELSE IF ~HasQuestion(interviews[found].questions, question_id)
             THEN failed(<<"Question not found in interview">>)
             ELSE
               LET interview == interviews[found]
                   o == EvaluateWithGemini(response)
                   record == [question_id |-> question_id, evaluation |-> o.value]
                   answers == PutAnswer(interview.answers, record)
                   completed == Len(answers) >= Len(interview.questions.v)
               IN  /\ call' = Call("evaluate_answer", "done", u, id, 1,
                                   response, o)
                   /\ interviews' =
                        IF o.kind = "raise"
                        THEN interviews
                        ELSE [interviews EXCEPT ![found] =
                                [@ EXCEPT
                                   !.status =
                                       IF completed THEN "completed"
                                       ELSE IF @ = "ready" THEN "in_progress"
                                       ELSE @,
                                   !.answers =
                                       IF interview.answers = <<>>
                                       THEN answers ELSE @,
                                   !.completed_questions = Len(answers),
                                   !.total_score =
                                       IF completed
                                       THEN Num(CalculateTotalScore(answers))
                                       ELSE @]]
    /\ UNCHANGED <<parseVars, retryVars, dbVars, cacheVars, uploadVars,
                   fetched, cover_letters>>

\* JobService._generate_recommendations_with_gemini (job_service.py:194-239):
\* one call of the model, not decorated
GenerateRecommendationsWithGemini(response) ==
    IF response.kind = "raise"
    THEN response
    ELSE ParseRecommendationsResponse(response.value.v)

\* JobService._analyze_match_with_gemini (job_service.py:421-498)
AnalyzeMatchWithGemini(response) ==
    IF response.kind = "raise"
    THEN response
    ELSE ParseMatchAnalysis(response.value.v)

\* JobService.get_job_recommendations (job_service.py:118-192)
GetJobRecommendations ==
    /\ ServiceReady
    /\ \E u \in Users, resume_id \in 1..MaxArtifacts,
          response \in ServiceResponses(RecommendationTexts) :
         LET resume == GetUserResume(resumes, resume_id, u)
         IN  call' =
               IF resume = 0 \/ ~Truthy(resumes[resume].analysis_result)
               THEN Call("get_job_recommendations", "done", u, resume_id, 0, NotYet,
                         RaiseWith("ValueError", <<"Resume not found or not analyzed">>))
               ELSE Call("get_job_recommendations", "done", u, resume_id, 1,
                         response, GenerateRecommendationsWithGemini(response))
    /\ UNCHANGED <<parseVars, retryVars, dbVars, cacheVars, uploadVars,
                   fetched, cover_letters, interviews>>

\* JobService.analyze_job_match (job_service.py:351-419)
AnalyzeJobMatch ==
    /\ ServiceReady
    /\ \E u \in Users, resume_id \in 1..MaxArtifacts,
          response \in ServiceResponses(MatchTexts) :
         LET resume == GetUserResume(resumes, resume_id, u)
         IN  call' =
               IF resume = 0 \/ ~Truthy(resumes[resume].analysis_result)
               THEN Call("analyze_job_match", "done", u, resume_id, 0, NotYet,
                         RaiseWith("ValueError", <<"Resume not found or not analyzed">>))
               ELSE Call("analyze_job_match", "done", u, resume_id, 1,
                         response, AnalyzeMatchWithGemini(response))
    /\ UNCHANGED <<parseVars, retryVars, dbVars, cacheVars, uploadVars,
                   fetched, cover_letters, interviews>>

\* the handler has answered; the next request may start
ServiceReturn ==
    /\ call.phase = "done"
    /\ call' = NoCall
    /\ UNCHANGED <<parseVars, retryVars, dbVars, cacheVars, uploadVars,
                   fetched, cover_letters, interviews>>

\* a step of an upload, between the requests of the other services
UploadStep ==
    /\ call.phase = "idle"
    /\ ArtifactCount < MaxArtifacts \/ pc # "idle"
    /\ Next

NextServices ==
    \/ UploadStep
    \/ GenerateCoverLetterStart \/ GenerateCoverLetterFinish \/ UpdateCoverLetter
    \/ GenerateInterviewStart \/ GenerateInterviewFinish \/ EvaluateAnswer
    \/ GetJobRecommendations \/ AnalyzeJobMatch
    \/ ServiceReturn
SpecServices == Init /\ [][NextServices]_vars

(***************************************************************************)
(* The claims.                                                             *)
(***************************************************************************)

\* C1 (Spec): when an upload follows an upload of the same owner and the
\* same content that ended 'analyzed', it is served from the cache: it
\* returns the resume of the first upload and the external model is not
\* invoked for it.  (An upload that raised ValueError, for its type, its
\* size or its text extraction, is left aside.)
C1_SecondUploadServedFromCache ==
    (/\ cur.user_id # 0
     /\ cur.exc # "ValueError"
     /\ prev.outcome \in {"analyzed", "hit"}
     /\ prev.user_id = cur.user_id
     /\ prev.file_hash = cur.file_hash)
    => /\ cur.outcome = "hit"
       /\ cur.returned = prev.resume_id
       /\ invocations = 0

\* the rows of the looked-up (user, hash)
RowsOfQuery ==
    {i \in 1..Len(resumes) :
        resumes[i].user_id = query.user_id /\ resumes[i].file_hash = query.file_hash}
\* the analyzed rows of the looked-up (user, hash) whose analysis has the
\* standard shape
StandardRowsOfQuery ==
    {i \in RowsOfQuery :
        /\ resumes[i].status = "analyzed"
        /\ IsDict(resumes[i].analysis_result)
        /\ Keys(resumes[i].analysis_result) = RequiredFields}

\* C2 (SpecCache): _get_cached_resume(user, hash) returns None while no
\* resume exists for (user, hash), and returns the stored resume once an
\* analyzed resume with an analysis of the standard shape is stored for it.
C2_StandardAnalysisIsCached ==
    query # NoQuery =>
        /\ (RowsOfQuery = {} => cached = 0)
        /\ (StandardRowsOfQuery # {} => cached \in StandardRowsOfQuery)

\* C3 (SpecCache): the lookup never returns an entry whose analysis lacks
\* ats_score, an entry with an empty analysis included.
C3_StaleEntryNeverReturned ==
    (query # NoQuery /\ cached # 0) =>
        "ats_score" \in Keys(resumes[cached].analysis_result)

\* C4 (SpecRetry): a decorated function that raises on its first k
\* invocations and then succeeds is invoked exactly k+1 times and its value
\* returned when max_attempts > k, and is invoked exactly max_attempts times
\* before the exhaustion error when max_attempts <= k; it is never invoked
\* more often.
C4_AttemptCounting ==
    /\ invocations <= Min(fail_count + 1, policy.max_attempts)
    /\ rpc = "done" =>
          IF policy.max_attempts > fail_count
          THEN result = Return(Str("Success")) /\ invocations = fail_count + 1
          ELSE /\ result.kind = "raise"
               /\ result.exc = "RetryError"
               /\ invocations = policy.max_attempts

C4_Witness ==
    /\ rpc = "done"
    /\ fail_count = 2
    /\ policy.max_attempts = 3
    /\ invocations = 3
    /\ result.kind = "return"

\* C5 (SpecRetry): no wait precedes attempt 1, the wait before attempt n
\* (n >= 2) is min(max_wait, initial_wait * multiplier^(n-2)), and under the
\* Gemini policy the waits are 1 s before attempt 2 and 2 s before attempt 3.
C5_BackoffTiming ==
    /\ Len(waits) = attempt_number - 1
    /\ \A i \in 1..Len(waits) :
          waits[i] = Min(policy.max_wait,
                         policy.initial_wait * policy.multiplier ^ (i - 1))
    /\ policy = GeminiPolicy =>
          /\ (Len(waits) >= 1 => waits[1] = 1)
          /\ (Len(waits) >= 2 => waits[2] = 2)

\* C6 (SpecRetry): when every attempt of a decorated call has raised, the
\* caller gets RetryError wrapping the exception of the last attempt, never
\* an attempt's own exception, after max_attempts attempts; with
\* max_attempts = 1 after one attempt and no wait.
C6_ExhaustionIsDistinctError ==
    (rpc = "done" /\ Len(raised) = invocations) =>
        /\ result.kind = "raise"
        /\ result.exc = "RetryError"
        /\ result.exc \notin ExcTypes
        /\ result.cause = raised[Len(raised)]
        /\ invocations = policy.max_attempts
        /\ (policy.max_attempts = 1 => invocations = 1 /\ waits = <<>>)

C6_Witness ==
    /\ rpc = "done"
    /\ Len(raised) = invocations
    /\ invocations >= 2
    /\ raised[1] # raised[Len(raised)]
    /\ result.exc = "RetryError"

\* C7 (SpecParse): _parse_analysis_response never raises and returns a
\* mapping holding every required key, for every response text.
C7_NormalizerTotal ==
    parsed # NotYet =>
        /\ parsed.kind = "return"
        /\ IsDict(parsed.value)
        /\ RequiredFields \subseteq Keys(parsed.value)

\* C8 (Spec): once the model call has returned text, whatever the text, the
\* model is not called again and the resume ends 'analyzed'; a resume fails
\* at the analysis step only when every model call raised.
C8_MalformedOutputNeverFails ==
    /\ Len(cur.texts) <= 1
    /\ (pc = "finished" /\ cur.texts # <<>>) =>
          /\ cur.outcome = "analyzed"
          /\ resumes[cur.resume_id].status = "analyzed"
    /\ (pc = "finished" /\ cur.outcome = "failed" /\ invocations > 0) =>
          cur.texts = <<>>

\* the JSON object a response text holds
HasObject(text) == \E i \in DOMAIN text : text[i].ty = "obj"
ObjectOf(text) == text[CHOOSE i \in DOMAIN text : text[i].ty = "obj"]

\* C9 (Spec): when the model call raises on the first two attempts and the
\* third returns a JSON object, the upload has made exactly 3 model calls,
\* the resume is 'analyzed', every returned field is stored unchanged and
\* every missing required field holds its default ([] or 0).
C9_EndToEndRecovery ==
    (/\ pc = "finished"
     /\ raised = <<"ConnectionError", "ConnectionError">>
     /\ Len(cur.texts) = 1
     /\ HasObject(cur.texts[1]))
    => LET sent == ObjectOf(cur.texts[1])
           row == resumes[cur.resume_id]
           stored == row.analysis_result
       IN  /\ invocations = 3
           /\ cur.outcome = "analyzed"
           /\ cur.returned = cur.resume_id
           /\ row.status = "analyzed"
           /\ IsDict(stored)
           /\ \A k \in Keys(sent) :
                 k \in Keys(stored) /\ stored.v[k] = sent.v[k]
           /\ \A k \in RequiredFields \ Keys(sent) :
                 /\ k \in Keys(stored)
                 /\ stored.v[k] =
                        IF k = "experience_years" THEN Num(0) ELSE List(<<>>)

C9_Witness ==
    /\ pc = "finished"
    /\ raised = <<"ConnectionError", "ConnectionError">>
    /\ cur.texts = <<FencedText(ModelObject({"skills"}))>>
    /\ cur.outcome = "analyzed"
    /\ resumes[cur.resume_id].analysis_result.v["skills"] = List(<<"Python">>)
    /\ resumes[cur.resume_id].analysis_result.v["experience_years"] = Num(0)

\* an upload has ended after every one of its model calls raised
Exhausted == pc = "finished" /\ invocations > 0 /\ cur.texts = <<>>

\* C10 (Spec): when the model call raises on every attempt, the upload has
\* made exactly 3 model calls, its resume is 'failed' with an error message
\* and without analysis, the handler raises, and a lookup of the same
\* (owner, fingerprint) misses; the model is invoked only inside a request,
\* for the record that request created.
C10_EndToEndExhaustion ==
    /\ Exhausted =>
          /\ invocations = 3
          /\ cur.outcome = "failed"
          /\ cur.exc = "RetryError"
          /\ cur.returned = 0
          /\ resumes[cur.resume_id].status = "failed"
          /\ resumes[cur.resume_id].error_message # NoError
          /\ resumes[cur.resume_id].analysis_result = None
          /\ GetCachedResume(resumes, first_row, cur.user_id, cur.file_hash) = 0
    /\ pc = "idle" => (rpc = "idle" /\ invocations = 0)
    /\ pc = "analyzing" => resumes[cur.resume_id].status = "processing"

C10_Witness ==
    /\ Exhausted
    /\ raised = <<"ConnectionError", "ConnectionError", "ConnectionError">>
    /\ resumes[cur.resume_id].status = "failed"
    /\ \E i \in 1..Len(resumes) :
          /\ i # cur.resume_id
          /\ resumes[i].user_id = cur.user_id
          /\ resumes[i].file_hash = cur.file_hash
          /\ resumes[i].status = "analyzed"

\* C13 (SpecCache).  Owner isolation: the cache lookup for (owner A,
\* fingerprint f) never returns an entry of another owner, also when that
\* owner stored byte-identical content, and get_resume_by_id(id, A) returns
\* nothing for a resume that another user owns.
C13_OwnerIsolation ==
    /\ cached # 0 => resumes[cached].user_id = query.user_id
    /\ fetched.found # 0 =>
          /\ fetched.found = fetched.resume_id
          /\ resumes[fetched.found].user_id = fetched.user_id
    /\ (/\ fetched.resume_id \in 1..Len(resumes)
        /\ resumes[fetched.resume_id].user_id # fetched.user_id)
          => fetched.found = 0

\* user B holds a cacheable analysis of the bytes user A asks about, A holds
\* none, and A has asked for B's resume by its id
C13_Witness ==
    /\ query.user_id # 0
    /\ cached = 0
    /\ \E i \in 1..Len(resumes) :
          /\ resumes[i].user_id # query.user_id
          /\ resumes[i].file_hash = query.file_hash
          /\ resumes[i].status = "analyzed"
          /\ CacheCheck(resumes[i]) = i
          /\ fetched.resume_id = i
          /\ fetched.user_id = query.user_id
          /\ fetched.found = 0

\* the most recently completed entry of the pair looked up: rows are written
\* one after the other, so it is the analyzed row with the greatest id
AnalyzedRowsOfQuery == {i \in RowsOfQuery : resumes[i].status = "analyzed"}
MostRecentOfQuery ==
    CHOOSE i \in AnalyzedRowsOfQuery : \A j \in AnalyzedRowsOfQuery : j <= i

\* C14 (SpecCache).  Most-recent lookup: whenever at least one completed
\* entry exists for the (owner, fingerprint) pair looked up, the lookup
\* evaluates the most recently completed one and returns it (or None if
\* that entry is stale), also when older entries of the pair are present.
C14_MostRecentLookup ==
    (query # NoQuery /\ AnalyzedRowsOfQuery # {})
        => cached = CacheCheck(resumes[MostRecentOfQuery])

\* C15 (Spec).  Only completed analyses are cached: the cache lookup of an
\* upload never returns a resume that is 'processing' or 'failed'; every
\* 'analyzed' resume carries a non-null analysis, the one the parser made of
\* a text that a model call of its own request returned; a resume that is
\* 'processing' or 'failed' carries none.
C15_OnlyCompletedAnalysesCached ==
    /\ cur.outcome = "hit" =>
          /\ cur.returned \in 1..Len(resumes)
          /\ resumes[cur.returned].status = "analyzed"
    /\ \A i \in 1..Len(resumes) :
          IF resumes[i].status = "analyzed"
          THEN /\ resumes[i].analysis_result # None
               /\ IsDict(resumes[i].analysis_result)
               /\ {"analyzed_at", "model_used"}
                      \subseteq Keys(resumes[i].analysis_result)
          ELSE resumes[i].analysis_result = None
    /\ (pc = "finished" /\ cur.outcome = "analyzed") =>
          /\ result.kind = "return"
          /\ cur.texts # <<>>
          /\ resumes[cur.resume_id].analysis_result =
                 AnalyzeResumeTextBody(
                     Return(J("text", cur.texts[Len(cur.texts)]))).value

\* an upload is served from the cache although an earlier upload of the same
\* user and bytes is stored as 'failed'
C15_Witness ==
    /\ pc = "finished"
    /\ cur.outcome = "hit"
    /\ \E i \in 1..Len(resumes) :
          /\ resumes[i].user_id = cur.user_id
          /\ resumes[i].file_hash = cur.file_hash
          /\ resumes[i].status = "failed"
          /\ i < cur.returned

\* C17 (Spec).  Validation precedes the external call: an upload rejected
\* for its shape (a type that is not allowed, or more bytes than the
\* configured maximum) raises ValueError, answered with HTTP 400, before any
\* model call: no attempt of the retry loop is used and no resume record is
\* created; the bytes that are too large never get a record.
C17_ValidationPrecedesModelCall ==
    /\ [][(pc = "idle" /\ cur'.outcome = "rejected") =>
            /\ resumes' = resumes
            /\ first_row' = first_row
            /\ pc' = "finished"
            /\ rpc' = "idle"
            /\ invocations' = 0
            /\ attempt_number' = 1
            /\ waits' = <<>>
            /\ log' = <<>>
            /\ cur'.resume_id = 0
            /\ cur'.texts = <<>>
            /\ cur'.exc = "ValueError"
            /\ UploadResumeStatus(cur'.exc, "") = 400]_vars
    /\ [](\A i \in 1..Len(resumes) :
            resumes[i].file_hash # ComputeFileHash("c2"))

\* the upload that is too large has been rejected while resumes of earlier
\* uploads are stored
C17_Witness ==
    /\ pc = "finished"
    /\ cur.outcome = "rejected"
    /\ cur.file_hash = ComputeFileHash("c2")
    /\ invocations = 0
    /\ Len(resumes) > 0

\* C11: every invocation of the external model runs under the retry policy:
\* a request of any service (resume analysis, cover-letter generation and
\* regeneration, question generation, answer evaluation, job recommendations,
\* job-match analysis) fails with the model's exception only after the model
\* has been called GeminiMaxAttempts times; one call that raises is retried.
C11_EveryModelCallRetried ==
    /\ (pc = "finished" /\ cur.outcome = "failed" /\ raised # <<>>) =>
            invocations = GeminiMaxAttempts
    /\ (call.phase = "done" /\ call.response.kind = "raise") =>
            call.model_calls = GeminiMaxAttempts

\* a decoded value that is a score within its declared range
IsScore(x) == x.ty = "num" /\ x.v >= 0 /\ x.v <= 100

\* C12: every score a normalizer returns lies in [0,100], on the path of a
\* decoded response and on the fallback path alike: the score of an answer
\* evaluation, the match_score of every job recommendation and the
\* match_score of a job-match analysis (a decoded 150 becomes 100, a decoded
\* -20 becomes 0).
C12_ScoresClamped ==
    (call.phase = "done" /\ call.outcome.kind = "return") =>
        CASE call.op = "evaluate_answer" ->
                IsScore(call.outcome.value.v["score"])
          [] call.op = "get_job_recommendations" ->
                \A i \in 1..Len(call.outcome.value.v) :
                    IsScore(call.outcome.value.v[i].v["match_score"])
          [] call.op = "analyze_job_match" ->
                "match_score" \in Keys(call.outcome.value) =>
                    IsScore(call.outcome.value.v["match_score"])
          [] OTHER -> TRUE

\* C16: question generation degrades instead of failing: whatever text the
\* model returns, generate_interview ends with the interview 'ready' and
\* holding questions (the canned ones when the output is unusable); the
\* interview ends 'failed' only when the model call itself raised.
C16_QuestionGenerationDegrades ==
    (call.phase = "done" /\ call.op = "generate_interview") =>
        IF call.response.kind = "return"
        THEN /\ call.outcome.kind = "return"
             /\ interviews[call.id].status = "ready"
             /\ Len(interviews[call.id].questions.v) > 0
        ELSE interviews[call.id].status = "failed"

TerminalStatuses == {"analyzed", "generated", "ready", "failed"}
GeneratingStatuses == {"processing", "generating"}
\* every record of the table is still there after the step, a failed one is
\* failed and one in a terminal status is not being generated
AbsorbingStep(old, new) ==
    \A i \in 1..Len(old) :
        /\ i \in 1..Len(new)
        /\ old[i].status = "failed" => new[i].status = "failed"
        /\ old[i].status \in TerminalStatuses =>
                new[i].status \notin GeneratingStatuses

\* C18: terminal states are absorbing: once a resume, a cover letter or an
\* interview has reached 'failed', no step changes its status, and no step
\* moves an artifact from a terminal status (analyzed, generated, ready,
\* failed) back to the status it has while it is generated (processing,
\* generating).  An interview that is 'ready' moves on to 'in_progress' and
\* 'completed' as its questions are answered.
C18_TerminalStatesAbsorbing ==
    [][/\ AbsorbingStep(resumes, resumes')
       /\ AbsorbingStep(cover_letters, cover_letters')
       /\ AbsorbingStep(interviews, interviews')]_vars

\* a failed cover letter has been regenerated on request, successfully, and
\* is still 'failed'
C18_Witness ==
    /\ call.phase = "done"
    /\ call.op = "update_cover_letter"
    /\ call.model_calls = 1
    /\ call.outcome.kind = "return"
    /\ cover_letters[call.id].status = "failed"
    /\ cover_letters[call.id].version = 2

\* C19: a cover letter's version starts at 1 and grows by exactly 1 with
\* each regeneration whose model call returned and with each manual edit of
\* non-empty content; every other step leaves it as it is, among them a
\* regeneration whose model call raises and an update with neither
\* regenerate nor content.
C19_VersionCounter ==
    [][\A i \in 1..Len(cover_letters') :
         IF i \notin 1..Len(cover_letters)
         THEN cover_letters'[i].version = 1
         ELSE LET updated ==
                      /\ call.phase = "idle"
                      /\ call'.op = "update_cover_letter"
                      /\ call'.id = i
                      /\ call'.user_id = cover_letters[i].user_id
                  incremented ==
                      /\ updated
                      /\ \/ call'.regenerate /\ call'.outcome.kind = "return"
                         \/ ~call'.regenerate /\ Truthy(call'.content)
              IN  cover_letters'[i].version =
                      cover_letters[i].version + (IF incremented THEN 1 ELSE 0)
      ]_vars

\* a letter that has been regenerated or edited before has been edited by
\* hand and is at version 3
C19_Witness ==
    /\ call.phase = "done"
    /\ call.op = "update_cover_letter"
    /\ ~call.regenerate
    /\ call.content = Str("edited")
    /\ cover_letters[call.id].version = 3

\* a text that scrub_all_pii leaves as it is: no personal data is left in it
Scrubbed(text) == ScrubAllPii(text) = text

\* C20: no unscrubbed error text of the external call is exposed: the
\* error_message stored with a cover letter or an interview, and the error
\* text a request hands to its caller (logged and returned in the HTTP error
\* detail), have passed through scrub_all_pii.
C20_ErrorTextScrubbed ==
    /\ \A i \in 1..Len(cover_letters) :
            cover_letters[i].error_message.ty = "msg" =>
                Scrubbed(cover_letters[i].error_message.v)
    /\ \A i \in 1..Len(interviews) :
            interviews[i].error_message.ty = "msg" =>
                Scrubbed(interviews[i].error_message.v)
    /\ (call.phase = "done" /\ call.outcome.kind = "raise") =>
            Scrubbed(MessageOf(call.outcome))

\* C21: commit before call: while the external model call of a resume
\* analysis, a cover-letter generation or a question generation is under way
\* (between its attempts too), the stored record exists in its in-progress
\* status ('processing', 'generating') and holds no result and no error, so
\* a process that stops during the call leaves exactly that.
C21_CommitBeforeCall ==
    /\ pc = "analyzing" =>
          /\ cur.resume_id \in 1..Len(resumes)
          /\ resumes[cur.resume_id].status = "processing"
          /\ resumes[cur.resume_id].analysis_result = None
          /\ resumes[cur.resume_id].error_message = NoError
    /\ (call.phase = "calling" /\ call.op = "generate_cover_letter") =>
          /\ call.id \in 1..Len(cover_letters)
          /\ cover_letters[call.id].status = "generating"
          /\ cover_letters[call.id].content = None
          /\ cover_letters[call.id].error_message = None
    /\ (call.phase = "calling" /\ call.op = "generate_interview") =>
          /\ call.id \in 1..Len(interviews)
          /\ interviews[call.id].status = "generating"
          /\ interviews[call.id].questions = List(<<>>)
          /\ interviews[call.id].error_message = None

\* the model call of a cover-letter generation is under way
C21_Witness ==
    /\ call.phase = "calling"
    /\ call.op = "generate_cover_letter"
    /\ Len(cover_letters) = 1

\* C22: concurrent duplicate submissions resolve last-write-wins: when an
\* upload has written its analysis after an overlapping upload of the same
\* content by the same owner wrote one (both missed the cache and called the
\* model), a lookup for that (owner, fingerprint) returns the resume that was
\* written last.
C22_LastWriteWins ==
    (/\ pc = "finished"
     /\ cur.outcome = "analyzed"
     /\ \E j \in (loop.accepted_at + 1)..(cur.resume_id - 1) :
            /\ resumes[j].user_id = cur.user_id
            /\ resumes[j].file_hash = cur.file_hash
            /\ resumes[j].status = "analyzed")
        => GetCachedResume(resumes, first_row, cur.user_id, cur.file_hash)
                = cur.resume_id

\* C23: backoff does not block other requests: while the retry loop of one
\* upload sleeps between two attempts, a request that is suspended and whose
\* read is done can be run on.
C23_BackoffDoesNotBlock ==
    (pc = "analyzing" /\ rpc = "sleep" /\ loop.waiting # <<>>)
        => ENABLED LoopResume

\* how often the event occurs in the log
RECURSIVE CountEvents(_, _)
CountEvents(events, e) ==
    IF events = <<>> THEN 0
    ELSE (IF Head(events) = e THEN 1 ELSE 0) + CountEvents(Tail(events), e)

\* C24: the events of one retried call: exactly one event before each
\* backoff sleep, and for the whole call exactly one terminal event, success
\* or exhaustion; 'api_call_failed_all_retries' is emitted only when the
\* last permitted attempt has failed, never for an attempt that is retried.
C24_RetryEvents ==
    /\ CountEvents(log, "before_sleep_log")
            = Len(waits) + (IF rpc = "sleep" THEN 1 ELSE 0)
    /\ rpc = "done" =>
            CountEvents(log, "api_call_succeeded")
                + CountEvents(log, "api_call_failed_all_retries") = 1
    /\ CountEvents(log, "api_call_failed_all_retries") > 0 =>
            /\ rpc = "done"
            /\ result.kind = "raise"
            /\ invocations = policy.max_attempts

\* C25: no record is left in progress by a finished request: when
\* upload_and_analyze_resume, generate_cover_letter or generate_interview
\* has returned or raised after creating its record, the record is
\* analyzed / generated / ready or failed, never 'processing' or 'generating'.
C25_NoArtifactInProgress ==
    /\ (pc = "finished" /\ cur.resume_id # 0 /\ cur.outcome # "hit") =>
            resumes[cur.resume_id].status \in {"analyzed", "failed"}
    /\ (call.phase = "done" /\ call.op = "generate_cover_letter") =>
            cover_letters[call.id].status \in {"generated", "failed"}
    /\ (call.phase = "done" /\ call.op = "generate_interview") =>
            interviews[call.id].status \in {"ready", "failed"}

\* a generate_interview that raised after its record was created
C25_Witness ==
    /\ call.phase = "done"
    /\ call.op = "generate_interview"
    /\ call.outcome.kind = "raise"
    /\ interviews[call.id].status = "failed"

\* C26: status and content of a cover letter agree after any sequence of
\* generate_cover_letter and update_cover_letter calls: the content is not
\* null exactly when the status is 'generated', and a 'failed' letter has an
\* error_message and no content.
C26_StatusContentAgree ==
    \A i \in 1..Len(cover_letters) :
        /\ cover_letters[i].content # None
                <=> cover_letters[i].status = "generated"
        /\ cover_letters[i].status = "failed" =>
                /\ cover_letters[i].error_message # None
                /\ cover_letters[i].content = None

\* C27: a ready interview is answerable: an interview that generate_interview
\* leaves 'ready' holds at least one question, its questions have the ids
\* 1..n with n at most the requested count clamped to 1..10, and
\* evaluate_answer on a ready interview never fails with 'Interview has no
\* questions'.
C27_ReadyIsAnswerable ==
    /\ (/\ call.phase = "done"
        /\ call.op = "generate_interview"
        /\ interviews[call.id].status = "ready") =>
            LET questions == interviews[call.id].questions
            IN  /\ questions.ty = "arr"
                /\ Len(questions.v) >= 1
                /\ Len(questions.v) <= call.question_count
                /\ \A i \in 1..Len(questions.v) :
                        questions.v[i].v["id"] = Num(i)
    /\ (/\ call.phase = "done"
        /\ call.op = "evaluate_answer"
        /\ GetInterview(interviews, call.id, call.user_id) # 0
        /\ interviews[call.id].status = "ready") =>
            call.outcome # RaiseWith("ValueError", <<"Interview has no questions">>)

\* the ids of the questions of an interview
QuestionIdsOf(interview) ==
    {interview.questions.v[i].v["id"].v : i \in 1..Len(interview.questions.v)}

\* C28: after any sequence of evaluate_answer calls, answers holds at most
\* one record per question_id, every recorded question_id is the id of a
\* question of the interview, and completed_questions equals the number of
\* answer records and never exceeds the number of questions.
C28_AnswerBookkeeping ==
    \A i \in 1..Len(interviews) :
        LET interview == interviews[i]
            answers == interview.answers
        IN  /\ \A j, k \in 1..Len(answers) :
                    answers[j].question_id = answers[k].question_id => j = k
            /\ \A j \in 1..Len(answers) :
                    answers[j].question_id \in QuestionIdsOf(interview)
            /\ interview.completed_questions = Len(answers)
            /\ interview.completed_questions <= Len(interview.questions.v)

\* the moves of the status evaluate_answer may make
ProgressionMoves ==
    {<<"ready", "in_progress">>, <<"ready", "completed">>,
     <<"in_progress", "in_progress">>, <<"in_progress", "completed">>,
     <<"completed", "completed">>}
\* every question of the interview has an answer record
AllAnswered(interview) ==
    \A q \in QuestionIdsOf(interview) :
        \E j \in 1..Len(interview.answers) : interview.answers[j].question_id = q
\* an evaluate_answer that stores something moves the status only along
\* ready -> in_progress -> completed and never back
StatusMoves(old, new) == <<old.status, new.status>> \in ProgressionMoves
\* the stored interview is 'completed' exactly when every question has an
\* answer record
CompletionAgrees(new) == new.status = "completed" <=> AllAnswered(new)
\* total_score is set only in the completed status, where it is the mean of
\* the recorded evaluation scores (in tenths) within [0,100]
ScoreAgrees(new) ==
    new.total_score # None =>
        /\ new.status = "completed"
        /\ new.total_score = Num(CalculateTotalScore(new.answers))
        /\ new.total_score.v \in 0..1000

\* C29: interview progression: through evaluate_answer the status moves only
\* ready -> in_progress -> completed; the interview is 'completed' exactly
\* when every question has an answer record and is never moved back to
\* in_progress; total_score is set only in the completed status, where it is
\* the mean of the recorded evaluation scores and lies in [0,100].
C29_InterviewProgression ==
    [][(call'.op = "evaluate_answer" /\ interviews' # interviews) =>
            \A i \in 1..Len(interviews) :
                interviews'[i] # interviews[i] =>
                    /\ StatusMoves(interviews[i], interviews'[i])
                    /\ CompletionAgrees(interviews'[i])
                    /\ ScoreAgrees(interviews'[i])]_vars

\* C30: an evaluate_answer that raises, because the interview or the
\* question is not found or because the model call raised, leaves the
\* persisted interview exactly as it was: status (still 'ready' if it was
\* ready), answers, completed_questions and total_score are unchanged.
C30_FailedEvaluationChangesNothing ==
    [][(/\ call'.op = "evaluate_answer"
        /\ call'.phase = "done"
        /\ call'.outcome.kind = "raise"
        /\ call.phase = "idle") => interviews' = interviews]_vars

\* the model call of an evaluate_answer on a ready interview has raised
C30_Witness ==
    /\ call.op = "evaluate_answer"
    /\ call.phase = "done"
    /\ call.model_calls = 1
    /\ call.outcome.kind = "raise"
    /\ interviews[call.id].status = "ready"
    /\ interviews[call.id].answers = <<>>

====
